---- MODULE Spec2Model ----
(***************************************************************************)
(* Model of the node-side role reconciliation agent                        *)
(* (automation/role-monitor/bcm_role_monitor.py, class BCMRoleMonitor).    *)
(*                                                                         *)
(* One agent process runs monitor_loop: probe the authority, query the     *)
(* role, reconcile the dcgm-exporter service, publish or retract the       *)
(* Prometheus target file, save the state file, sleep.  The service        *)
(* manager, the shared target directory and the authority are the          *)
(* environment.  Files are sequences of JSON tokens so that a truncated    *)
(* file differs from a complete one and json.load can fail on it.          *)
(***************************************************************************)
EXTENDS Integers, Sequences, FiniteSets, TLC

(***************************************************************************)
(* Bounds of the model and constants of the program.                       *)
(***************************************************************************)
MaxCycles == 5
MaxHeadnodes == 2
\* Nodes whose agents share the targets directory.
MaxNodes == 2
\* The configured retry_interval in units of check_interval (the default
\* configuration has 600 s / 60 s = 10).
BackoffCycles == 2

check_interval == 60
retry_interval == BackoffCycles * check_interval
max_retries == 3
dcgm_exporter_port == 9400

service == "dcgm-exporter"
hostname == "node1"
cluster_name == "slurm"

(***************************************************************************)
(* Python values.  A value is a record [t, v]: t is the Python type and v  *)
(* the payload (a time for str/datetime, 0 or 1 for bool).                 *)
(***************************************************************************)
PyNone == [t |-> "NoneType", v |-> 0]
PyBool(b) == [t |-> "bool", v |-> IF b THEN 1 ELSE 0]
PyInt(n) == [t |-> "int", v |-> n]
PyDatetime(n) == [t |-> "datetime", v |-> n]
PyTrue == PyBool(TRUE)
PyFalse == PyBool(FALSE)

\* datetime.isoformat(): a str.  The program only ever writes this string
\* (last_check) and never reads it back, so its characters are not modelled.
isoformat(d) == [t |-> "str", v |-> 0]

\* Python truthiness of a value (bool(x)); a datetime is always true.
Truthy(x) ==
    CASE x.t = "NoneType" -> FALSE
      [] x.t = "bool" -> x.v = 1
      [] x.t = "int" -> x.v # 0
      [] OTHER -> TRUE

\* datetime + timedelta(seconds = s)
PlusSeconds(d, s) == PyDatetime(d.v + s)

(***************************************************************************)
(* JSON text.  A file body is the sequence of tokens json.dump has written *)
(* so far: k is the member key ("" inside an array or at top level), t the *)
(* JSON type ("{", "}", "[", "]", "null", "bool", "int", "str", or "" for  *)
(* a key whose value was never written), s and v the payload.              *)
(***************************************************************************)
Tok(k, t, s, v) == [k |-> k, t |-> t, s |-> s, v |-> v]
ObjOpen(k) == Tok(k, "{", "", 0)
ObjClose == Tok("", "}", "", 0)
ArrOpen(k) == Tok(k, "[", "", 0)
ArrClose == Tok("", "]", "", 0)

\* json's encoding of one Python value under key k.  A datetime has no JSON
\* encoding: the encoder raises TypeError after the key has been written.
Member(k, x) ==
    CASE x.t = "NoneType" -> Tok(k, "null", "", 0)
      [] x.t = "bool" -> Tok(k, "bool", "", x.v)
      [] x.t = "int" -> Tok(k, "int", "", x.v)
      [] x.t = "str" -> Tok(k, "str", "", x.v)
      [] OTHER -> Tok(k, "", "", 0)

\* json.dump(obj, f): tokens are written to f one by one as the encoder
\* yields them; at the first value it cannot encode it raises and what was
\* written stays in the file.  ok = no exception.
JsonDump(tokens) ==
    LET bad == {i \in 1..Len(tokens) : tokens[i].t = ""}
    IN  IF bad = {} THEN [ok |-> TRUE, text |-> tokens]
        ELSE LET first == CHOOSE i \in bad : \A j \in bad : i <= j
             IN  [ok |-> FALSE, text |-> SubSeq(tokens, 1, first)]

\* Bracket matching of a JSON text: stack holds the closers still owed.
RECURSIVE Balanced(_, _, _)
Balanced(text, i, stack) ==
    IF i > Len(text) THEN stack = <<>>
    ELSE LET tk == text[i]
         IN  CASE tk.t = "" -> FALSE
               [] tk.t = "{" -> Balanced(text, i + 1, <<"}">> \o stack)
               [] tk.t = "[" -> Balanced(text, i + 1, <<"]">> \o stack)
               [] tk.t \in {"}", "]"} ->
                    /\ stack # <<>>
                    /\ Head(stack) = tk.t
                    /\ (Len(stack) = 1 => i = Len(text))
                    /\ Balanced(text, i + 1, Tail(stack))
               [] OTHER -> stack # <<>> /\ Balanced(text, i + 1, stack)

\* json.load(f) succeeds (no JSONDecodeError) on this text.
JsonLoads(text) == text # <<>> /\ Balanced(text, 1, <<>>)

\* Nesting depth of position i (number of containers open before it).
Depth(text, i) ==
    Cardinality({j \in 1..(i - 1) : text[j].t \in {"{", "["}})
  - Cardinality({j \in 1..(i - 1) : text[j].t \in {"}", "]"}})

\* The Python value json.load builds from a scalar token.
Decode(tk) ==
    CASE tk.t = "null" -> PyNone
      [] tk.t = "bool" -> [t |-> "bool", v |-> tk.v]
      [] tk.t = "int" -> PyInt(tk.v)
      [] tk.t = "str" -> [t |-> "str", v |-> tk.v]
      [] OTHER -> [t |-> "dict", v |-> 0]

\* dict.get(key) on the object loaded from a well-formed text (None when the
\* key is missing); the empty text stands for the empty dict {}.
DictGet(text, key) ==
    LET at == {i \in 1..Len(text) : text[i].k = key /\ Depth(text, i) = 1}
    IN  IF at = {} THEN PyNone ELSE Decode(text[CHOOSE i \in at : TRUE])

(***************************************************************************)
(* Files.                                                                  *)
(***************************************************************************)
NoFile == [exists |-> FALSE, data |-> <<>>]
FileOf(text) == [exists |-> TRUE, data |-> text]
\* open(path, 'w'): the file exists and is empty.
Truncated == FileOf(<<>>)

(***************************************************************************)
(* The authority (BCM REST API).  One response per configured head node    *)
(* and request: status is "exception" (requests raised), "200" or "500";   *)
(* json_ok says the body parses; listed says this node's hostname is in    *)
(* the device list; roles are the roles of that device record.             *)
(***************************************************************************)
Resp(status, json_ok, listed, roles) ==
    [status |-> status, json_ok |-> json_ok, listed |-> listed, roles |-> roles]

Responses ==
    { Resp("exception", FALSE, FALSE, <<>>),
      Resp("500", FALSE, FALSE, <<>>),
      Resp("200", FALSE, FALSE, <<>>),
      Resp("200", TRUE, FALSE, <<>>),
      Resp("200", TRUE, TRUE, <<"slurmclient">>),
      Resp("200", TRUE, TRUE, <<"compute", "SlurmClient">>),
      Resp("200", TRUE, TRUE, <<"compute">>) }

Statuses == {"exception", "200", "500"}

\* str.lower() on the role names the authority uses.
Lower(role) ==
    CASE role = "SlurmClient" -> "slurmclient"
      [] role = "SLURMCLIENT" -> "slurmclient"
      [] OTHER -> role

\* Mutant: the probe does not look at the list of head nodes.
ProbeRefusedCertsOnly(headnodes, certs_exist) == ~certs_exist

\* test_bcm_connectivity, before the loop: it returns False without head
\* nodes or when a certificate file is missing.
ProbeRefused(headnodes, certs_exist) ==
    IF headnodes = <<>> THEN TRUE ELSE ~certs_exist

\* test_bcm_connectivity, in the loop: a head node that answers HTTP 200
\* makes it return True.
ProbeAccepts(status) == status = "200"

\* Mutant: no response ends the loop over the head nodes.
EndpointAnswersNever(r) == FALSE

\* Mutant: a well-formed device list decides the result even when it does
\* not contain this node.
EndpointAnswersUnlisted(r) == r.status = "200" /\ r.json_ok

\* One head node's answer as check_slurmclient_role reads it: the role as a
\* Python bool when the node is listed in a well-formed 200 response, else
\* "continue" with the next head node.
EndpointAnswers(r) == r.status = "200" /\ r.json_ok /\ r.listed

has_slurmclient(r) ==
    PyBool("slurmclient" \in {Lower(r.roles[j]) : j \in 1..Len(r.roles)})

\* What one response is, for the history of a query: "failed" (exception,
\* non-200 or unparseable body, lines 174-187), "unlisted" (the loop over the
\* devices ends without a match, lines 162-172), or the role it states.
Reading(r) ==
    IF ~(r.status = "200" /\ r.json_ok) THEN "failed"
    ELSE IF ~r.listed THEN "unlisted"
    ELSE IF has_slurmclient(r) = PyTrue THEN "has" ELSE "lacks"

(***************************************************************************)
(* Service controller.                                                     *)
(***************************************************************************)
\* Mutant: start_service reports success whatever happened.
start_service_always(rc_ok, readback) == TRUE

\* Mutant: start_service does not verify the unit after the start command.
start_service_unverified(rc_ok, readback) == rc_ok

\* start_service: True iff systemctl start exits 0 and the unit is active at
\* the read-back after the settle delay.
start_service(rc_ok, readback) == IF rc_ok THEN readback ELSE FALSE

(***************************************************************************)
(* Retry state: a dict keyed by service name; absent until                 *)
(* handle_service_retry first runs.                                        *)
(***************************************************************************)
EmptyDict == <<>>
ZeroRetry ==
    [attempts |-> 0, last_attempt |-> PyNone, next_attempt |-> PyNone,
     failed_permanently |-> FALSE]
DictOf(info) == service :> info
Has(d) == service \in DOMAIN d

\* Mutant: the backoff is not honoured.
NotTimeYetIgnored(info, t) == FALSE

\* Mutant: a backoff, once set, never ends.
NotTimeYetForever(info, t) == Truthy(info.next_attempt)

\* next_attempt and now < next_attempt
NotTimeYet(info, t) ==
    Truthy(info.next_attempt) /\ t < info.next_attempt.v

\* Mutants: the comparison with max_retries is off by one, either way.
GiveUpLate(attempts) == attempts > max_retries
GiveUpEarly(attempts) == attempts + 1 >= max_retries

\* attempts >= max_retries
GiveUp(attempts) == attempts >= max_retries

\* Mutant: a failed start sets no backoff (the next attempt is due at once).
RecordFailureNoBackoff(info, t) ==
    LET n == info.attempts + 1
    IN  [info EXCEPT !.attempts = n, !.last_attempt = PyDatetime(t),
                     !.next_attempt = PyDatetime(t),
                     !.failed_permanently = GiveUp(n)]

\* The failure branch of handle_service_retry at time t.
RecordFailure(info, t) ==
    LET n == info.attempts + 1
    IN  IF GiveUp(n)
        THEN [info EXCEPT !.attempts = n, !.last_attempt = PyDatetime(t),
                          !.failed_permanently = TRUE]
        ELSE [info EXCEPT !.attempts = n, !.last_attempt = PyDatetime(t),
                          !.next_attempt = PlusSeconds(PyDatetime(t), retry_interval)]

\* Mutant: manage_service forgets to reset the retry state.
ResetForgotten(d) == d

\* The reset manage_service applies: only when the service has an entry.
ResetIfPresent(d) == IF Has(d) THEN DictOf(ZeroRetry) ELSE d

(***************************************************************************)
(* Target descriptor and state record as JSON.                             *)
(***************************************************************************)
\* target_data of _create_prometheus_target, as json.dump writes it.
TargetTokensOf(host) ==
    << ArrOpen(""), ObjOpen(""),
       ArrOpen("targets"), Tok("", "str", host, dcgm_exporter_port), ArrClose,
       ObjOpen("labels"),
       Tok("job", "str", "dcgm-exporter", 0),
       Tok("cluster", "str", cluster_name, 0),
       Tok("hostname", "str", host, 0),
       ObjClose, ObjClose, ArrClose >>

TargetTokens == TargetTokensOf(hostname)

RetryTokens(d) ==
    IF Has(d)
    THEN << ObjOpen(service),
            Member("attempts", PyInt(d[service].attempts)),
            Member("last_attempt", d[service].last_attempt),
            Member("next_attempt", d[service].next_attempt),
            Member("failed_permanently", PyBool(d[service].failed_permanently)),
            ObjClose >>
    ELSE <<>>

\* current_state of monitor_loop, as json.dump would write it.
StateTokens(role, t, d) ==
    << ObjOpen(""),
       Member("has_slurmclient_role", role),
       Member("last_check", isoformat(PyDatetime(t))),
       ObjOpen("retry_state") >>
    \o RetryTokens(d) \o << ObjClose, ObjClose >>

\* load_state: the loaded dict (as its text), or {} when the file is
\* missing or json.load raises.
load_state(file) ==
    IF file.exists /\ JsonLoads(file.data) THEN file.data ELSE <<>>

\* The retry_state member of a loaded state dict, as a retry dict.
LoadedRetry(text) ==
    LET at == {i \in 1..Len(text) : text[i].k = service /\ text[i].t = "{"
                                     /\ Depth(text, i) = 2}
    IN  IF at = {} THEN EmptyDict
        ELSE LET i == CHOOSE i \in at : TRUE
             IN  DictOf([attempts |-> text[i + 1].v,
                         last_attempt |-> Decode(text[i + 2]),
                         next_attempt |-> Decode(text[i + 3]),
                         failed_permanently |-> text[i + 4].v = 1])

(***************************************************************************)
(* Paths in the shared Prometheus targets directory.                       *)
(***************************************************************************)
\* Mutant: every node writes one file of the directory.
target_file_shared(host) == "targets.json"

\* os.path.join(target_base_dir, f'{self.hostname}.json'), relative to the
\* targets directory.
target_file_of(host) == host \o ".json"
\* Mutant: the descriptor is written in place, without a temporary file.
temp_file_in_place(target) == target

\* temp_file = f"{target_file}.tmp"
temp_file_of(target) == target \o ".tmp"

target_file == target_file_of(hostname)
Paths == {target_file, temp_file_of(target_file)}

(***************************************************************************)
(* Configuration (load_config, lines 59-92).  A value is the text the JSON *)
(* file has for it; "custom" stands for a value the operator wrote.        *)
(***************************************************************************)
default_config ==
    [ bcm_headnodes |-> "[]",
      bcm_port |-> "8081",
      cert_path |-> "/etc/bcm-role-monitor-dcgm/admin.pem",
      key_path |-> "/etc/bcm-role-monitor-dcgm/admin.key",
      check_interval |-> "60",
      retry_interval |-> "600",
      max_retries |-> "3",
      prometheus_targets_dir |-> "/cm/shared/apps/dcgm-exporter/prometheus-targets",
      dcgm_exporter_port |-> "9400",
      cluster_name |-> "slurm" ]

ConfigKeys == DOMAIN default_config

\* self.config before load_config has returned.
NoConfig == <<>>

\* "Merge with defaults": a key the file lacks gets the default value.
Merged(d) ==
    [k \in DOMAIN d \cup ConfigKeys |-> IF k \in DOMAIN d THEN d[k] ELSE default_config[k]]

\* What the operator's file sets in the runs of the loop: the retry interval
\* of the model and, when there are any, the head nodes.
LoopSettings(headnodes) ==
    [k \in {"retry_interval"} \cup (IF headnodes = <<>> THEN {} ELSE {"bcm_headnodes"})
       |-> "custom"]

\* The configuration the loop runs with.
LoopConfig(headnodes) == Merged(LoopSettings(headnodes))

(***************************************************************************)
(* State.                                                                  *)
(***************************************************************************)
VARIABLES
    pc,                     \* position of the agent process in monitor_loop
    idx,                    \* position of "for headnode in headnodes" (1-based)
    now,                    \* the wall clock, in seconds
    bcm_headnodes,          \* config['bcm_headnodes']
    config,                 \* self.config, NoConfig until load_config returns
    logger,                 \* self.logger is set (setup_logging has run)
    retry_state,            \* self.retry_state
    previous_role_status,   \* local of monitor_loop
    has_slurmclient_role,   \* local of monitor_loop (this cycle's role)
    active,                 \* systemd: dcgm-exporter is active
    targets_dir,            \* "ok", "missing" or "readonly"
    files,                  \* the files of the targets directory, by path
    state_file,             \* /var/lib/bcm-role-monitor-dcgm/<host>_state.json
    last_saved,             \* the text of the last save_state that completed
    cyc                     \* history of the current cycle (for the properties)

vars == << pc, idx, now, bcm_headnodes, config, logger, retry_state, previous_role_status,
           has_slurmclient_role, active, targets_dir, files, state_file,
           last_saved, cyc >>

agent == << pc, idx, retry_state, previous_role_status, has_slurmclient_role >>
world == << active, targets_dir, files, state_file, last_saved >>

DirStates == {"ok", "missing", "readonly"}
Headnodes == [i \in 1..MaxHeadnodes |-> i]

\* What one cycle did; reset when the sleep ends.
NewCycle(fresh) ==
    [ fresh |-> fresh,          \* no determinate cycle yet since startup
      first |-> FALSE,          \* this is the first determinate cycle
      outcome |-> "running",    \* "probe_failed", "indeterminate", "determinate", "error"
      role |-> PyNone,          \* the role the query returned
      all_failed |-> FALSE,     \* no head node answered the role query
      logged |-> FALSE,         \* "Role change detected" was logged
      svc_called |-> FALSE,     \* manage_service ran
      status_active |-> FALSE,  \* some status check of this cycle saw active
      start_cmds |-> 0,         \* systemctl start commands issued
      start_rc |-> FALSE,       \* systemctl start exited 0
      start_ok |-> FALSE,       \* start_service returned True
      stop_cmds |-> 0,          \* systemctl stop commands issued
      stop_ok |-> FALSE,        \* stop_service returned True
      tgt_called |-> FALSE,     \* manage_prometheus_targets ran
      tgt_dir |-> "",           \* ... and found the directory in this state
      tgt_writes |-> 0,         \* writes (renames) onto the target file
      tgt_removes |-> 0,        \* removals of the target file
      tmp_opens |-> 0,          \* opens of the temporary file
      state_opens |-> 0,        \* opens (truncations) of the state file
      saved |-> FALSE,          \* json.dump of the state completed
      save_failed |-> FALSE,    \* save_state caught an exception
      interrupted_at |-> "",    \* where the process was when it ended
      queried |-> <<>>,         \* the role query's requests so far, in order
      active0 |-> FALSE,        \* the service was active when the cycle began
      target0 |-> FALSE,        \* the target file existed when it began
      retry0 |-> retry_state,   \* retry_state at the start of the cycle
      prev0 |-> previous_role_status ]

TypeOK ==
    /\ pc \in {"start", "probe", "probe_req", "query_req", "manage", "retry", "targets",
               "tmp_write", "rename", "save", "save_write", "sleep", "done"}
    /\ idx \in 0..MaxHeadnodes
    /\ now \in 0..(MaxCycles * check_interval)
    /\ bcm_headnodes \in {<<>>, Headnodes}
    /\ config = LoopConfig(bcm_headnodes)
    /\ logger = TRUE
    /\ active \in BOOLEAN
    /\ targets_dir \in DirStates
    /\ DOMAIN files = Paths
    /\ previous_role_status \in {PyNone, PyTrue, PyFalse}
    /\ has_slurmclient_role \in {PyNone, PyTrue, PyFalse}

(***************************************************************************)
(* Init: the process has been constructed (__init__: retry_state = {}) and *)
(* monitor_loop is about to load the state file.  A first run finds no     *)
(* state file and no target file.                                          *)
(***************************************************************************)
Init ==
    /\ pc = "start"
    /\ idx = 0
    /\ now = 0
    /\ bcm_headnodes \in {<<>>, Headnodes}
    /\ config = LoopConfig(bcm_headnodes)
    /\ logger = TRUE
    /\ retry_state = EmptyDict
    /\ previous_role_status = PyNone
    /\ has_slurmclient_role = PyNone
    /\ active \in BOOLEAN
    /\ targets_dir \in {"ok", "missing"}
    /\ files = [p \in Paths |-> NoFile]
    /\ state_file = NoFile
    /\ last_saved = <<>>
    /\ cyc = NewCycle(TRUE)

(***************************************************************************)
(* monitor_loop, lines 397-398: seed previous_role_status from the state   *)
(* file.                                                                   *)
(***************************************************************************)
LoadState ==
    /\ pc = "start"
    /\ previous_role_status' = DictGet(load_state(state_file), "has_slurmclient_role")
    /\ pc' = "probe"
    /\ cyc' = [NewCycle(TRUE) EXCEPT
                 !.prev0 = DictGet(load_state(state_file), "has_slurmclient_role")]
    /\ UNCHANGED << idx, now, bcm_headnodes, config, logger, retry_state, has_slurmclient_role, world >>

(***************************************************************************)
(* Top of the loop: test_bcm_connectivity (lines 99-139, 403-406).         *)
(***************************************************************************)
Probe ==
    /\ pc = "probe"
    /\ \E certs_exist \in BOOLEAN :
         IF ProbeRefused(bcm_headnodes, certs_exist)
         THEN /\ pc' = "sleep"
              /\ idx' = 0
              /\ cyc' = [cyc EXCEPT !.outcome = "probe_failed",
                                    !.active0 = active,
                                    !.target0 = files[target_file].exists]
         ELSE /\ pc' = "probe_req"
              /\ idx' = 1
              /\ cyc' = [cyc EXCEPT !.active0 = active,
                                    !.target0 = files[target_file].exists]
    /\ UNCHANGED << now, bcm_headnodes, config, logger, retry_state, previous_role_status,
                    has_slurmclient_role, world >>

\* One request of the probe's loop, to head node idx.
ProbeRequest ==
    /\ pc = "probe_req"
    /\ \E status \in Statuses :
         IF ProbeAccepts(status)
         THEN /\ pc' = "query_req"
              /\ idx' = 1
              /\ cyc' = cyc
         ELSE IF idx < Len(bcm_headnodes)
         THEN /\ pc' = "probe_req"
              /\ idx' = idx + 1
              /\ cyc' = cyc
         ELSE /\ pc' = "sleep"
              /\ idx' = 0
              /\ cyc' = [cyc EXCEPT !.outcome = "probe_failed"]
    /\ UNCHANGED << now, bcm_headnodes, config, logger, retry_state, previous_role_status,
                    has_slurmclient_role, world >>

(***************************************************************************)
(* check_slurmclient_role (lines 141-189), one request per step, and the   *)
(* two branches after it in monitor_loop (lines 409-418).                  *)
(***************************************************************************)
\* Mutant: None is not told apart from False (the role coerced to a bool).
IndeterminateIgnored(role) == FALSE

\* has_slurmclient_role is None
Indeterminate(role) == role = PyNone

\* Mutant: every determinate cycle logs a role change.
RoleChangedAlways(prev, role) == TRUE

\* Mutant: the comparison ignores the role seeded from the state file.
RoleChangedUnseeded(prev, role) == PyNone # role

\* previous_role_status != has_slurmclient_role
RoleChanged(prev, role) == prev # role

\* monitor_loop once check_slurmclient_role has returned role.
Returned(role, answered, q) ==
    /\ has_slurmclient_role' = role
    /\ idx' = 0
    /\ IF Indeterminate(role)
       THEN /\ pc' = "sleep"
            /\ cyc' = [cyc EXCEPT !.outcome = "indeterminate",
                                  !.role = role,
                                  !.queried = q,
                                  !.all_failed = ~answered]
       ELSE /\ pc' = "manage"
            /\ cyc' = [cyc EXCEPT !.outcome = "determinate",
                                  !.role = role,
                                  !.queried = q,
                                  !.all_failed = ~answered,
                                  !.first = cyc.fresh,
                                  !.fresh = FALSE,
                                  !.logged = RoleChanged(previous_role_status, role)]

QueryRequest ==
    /\ pc = "query_req"
    /\ \E r \in Responses :
         LET q == Append(cyc.queried, [node |-> bcm_headnodes[idx], res |-> Reading(r)])
         IN  IF EndpointAnswers(r)
             THEN Returned(has_slurmclient(r), TRUE, q)
             ELSE IF idx < Len(bcm_headnodes)
             THEN /\ pc' = "query_req"
                  /\ idx' = idx + 1
                  /\ cyc' = [cyc EXCEPT !.queried = q]
                  /\ UNCHANGED has_slurmclient_role
             ELSE Returned(PyNone, FALSE, q)
    /\ UNCHANGED << now, bcm_headnodes, config, logger, retry_state, previous_role_status, world >>

(***************************************************************************)
(* manage_service (lines 373-391).  The start path continues in            *)
(* handle_service_retry, which reads the status again.                     *)
(***************************************************************************)
\* Mutant: the status check always reports the unit as active.
get_service_status_active == TRUE

\* Mutant: the status check never reports the unit as active.
get_service_status_inactive == FALSE

\* get_service_status
get_service_status == active

\* stop_service: systemctl stop; True iff it exits 0.
stop_service(rc_ok) == rc_ok

ManageService ==
    /\ pc = "manage"
    /\ LET should_run == Truthy(has_slurmclient_role)
           is_running == get_service_status
       IN  IF should_run
           THEN IF ~is_running
                THEN /\ pc' = "retry"
                     /\ UNCHANGED << retry_state, active >>
                     /\ cyc' = [cyc EXCEPT !.svc_called = TRUE, !.queried = <<>>]
                ELSE /\ pc' = "targets"
                     /\ retry_state' = ResetIfPresent(retry_state)
                     /\ UNCHANGED active
                     /\ cyc' = [cyc EXCEPT !.svc_called = TRUE, !.queried = <<>>,
                                           !.status_active = TRUE]
           ELSE /\ pc' = "targets"
                /\ retry_state' = ResetIfPresent(retry_state)
                /\ IF is_running
                   THEN \E rc_ok \in BOOLEAN :
                          /\ active' = IF stop_service(rc_ok) THEN FALSE ELSE active
                          /\ cyc' = [cyc EXCEPT !.svc_called = TRUE, !.queried = <<>>,
                                                !.stop_cmds = @ + 1,
                                                !.stop_ok = stop_service(rc_ok),
                                                !.status_active = TRUE]
                   ELSE /\ UNCHANGED active
                        /\ cyc' = [cyc EXCEPT !.svc_called = TRUE, !.queried = <<>>]
    /\ UNCHANGED << idx, now, bcm_headnodes, config, logger, previous_role_status, has_slurmclient_role,
                    targets_dir, files, state_file, last_saved >>

(***************************************************************************)
(* handle_service_retry (lines 328-371).                                   *)
(***************************************************************************)
HandleServiceRetry ==
    /\ pc = "retry"
    /\ pc' = "targets"
    /\ LET d == IF Has(retry_state) THEN retry_state ELSE DictOf(ZeroRetry)
           retry_info == d[service]
       IN  IF retry_info.failed_permanently
           THEN /\ retry_state' = IF get_service_status THEN DictOf(ZeroRetry) ELSE d
                /\ cyc' = [cyc EXCEPT !.status_active = @ \/ get_service_status]
                /\ UNCHANGED active
           ELSE IF NotTimeYet(retry_info, now)
           THEN /\ retry_state' = d
                /\ UNCHANGED << active, cyc >>
           ELSE \E rc_ok \in BOOLEAN, settled \in BOOLEAN :
                  LET readback == rc_ok /\ settled
                      ok == start_service(rc_ok, readback)
                  IN  /\ active' = IF rc_ok THEN readback ELSE active
                      /\ retry_state' = IF ok THEN DictOf(ZeroRetry)
                                        ELSE DictOf(RecordFailure(retry_info, now))
                      /\ cyc' = [cyc EXCEPT !.start_cmds = @ + 1, !.start_rc = rc_ok,
                                            !.start_ok = ok]
    /\ UNCHANGED << idx, now, bcm_headnodes, config, logger, previous_role_status, has_slurmclient_role,
                    targets_dir, files, state_file, last_saved >>

(***************************************************************************)
(* manage_prometheus_targets (lines 254-271), _create_prometheus_target    *)
(* (273-298) and _remove_prometheus_target (300-307).                      *)
(***************************************************************************)
\* Mutant: the targets directory is never found.
DirExistsNever(d) == FALSE

\* os.path.exists(target_base_dir)
DirExists(d) == d # "missing"

\* os.path.exists of a file of the targets directory.
PathExists(p) == targets_dir # "missing" /\ files[p].exists

ManageTargets ==
    /\ pc = "targets"
    /\ LET should_be_scraped == Truthy(has_slurmclient_role)
           temp_file == temp_file_of(target_file)
       IN  IF ~DirExists(targets_dir)
           THEN /\ pc' = "save"
                /\ UNCHANGED files
                /\ cyc' = [cyc EXCEPT !.tgt_called = TRUE, !.tgt_dir = targets_dir]
           ELSE IF should_be_scraped
           THEN IF targets_dir = "ok"
                THEN \* open(temp_file, 'w')
                     /\ pc' = "tmp_write"
                     /\ files' = [files EXCEPT ![temp_file] = Truncated]
                     /\ cyc' = [cyc EXCEPT !.tgt_called = TRUE, !.tgt_dir = targets_dir, !.tmp_opens = @ + 1,
                                           !.tgt_writes = @ + (IF temp_file = target_file
                                                               THEN 1 ELSE 0)]
                ELSE \* open raises; caught and logged in _create_prometheus_target
                     /\ pc' = "save"
                     /\ UNCHANGED files
                     /\ cyc' = [cyc EXCEPT !.tgt_called = TRUE, !.tgt_dir = targets_dir]
           ELSE /\ pc' = "save"
                /\ IF PathExists(target_file) /\ targets_dir = "ok"
                   THEN /\ files' = [files EXCEPT ![target_file] = NoFile]
                        /\ cyc' = [cyc EXCEPT !.tgt_called = TRUE, !.tgt_dir = targets_dir, !.tgt_removes = @ + 1]
                   ELSE \* nothing to remove, or os.remove raises (caught, logged)
                        /\ UNCHANGED files
                        /\ cyc' = [cyc EXCEPT !.tgt_called = TRUE, !.tgt_dir = targets_dir]
    /\ UNCHANGED << idx, now, bcm_headnodes, config, logger, retry_state, previous_role_status,
                    has_slurmclient_role, active, targets_dir, state_file, last_saved >>

\* json.dump(target_data, f) into the open temporary file.
TmpWrite ==
    /\ pc = "tmp_write"
    /\ LET temp_file == temp_file_of(target_file)
           w == JsonDump(TargetTokens)
       IN  /\ files' = [files EXCEPT ![temp_file] = FileOf(w.text)]
           /\ pc' = IF w.ok THEN "rename" ELSE "save"
    /\ UNCHANGED << idx, now, bcm_headnodes, config, logger, retry_state, previous_role_status,
                    has_slurmclient_role, active, targets_dir, state_file, last_saved, cyc >>

\* Mutant: the descriptor is published only while the service runs.
RenamedIfActive(fs, src, dst) ==
    IF active /\ src # dst THEN [fs EXCEPT ![dst] = fs[src], ![src] = NoFile] ELSE fs

\* os.rename(src, dst): dst atomically takes the content of src and src is
\* gone; renaming a path onto itself changes nothing.
Renamed(fs, src, dst) ==
    IF src = dst THEN fs ELSE [fs EXCEPT ![dst] = fs[src], ![src] = NoFile]

\* os.rename(temp_file, target_file); it raises (caught, logged) when the
\* directory is no longer writable.
Rename ==
    /\ pc = "rename"
    /\ pc' = "save"
    /\ LET temp_file == temp_file_of(target_file)
       IN  IF targets_dir = "ok"
           THEN /\ files' = Renamed(files, temp_file, target_file)
                /\ cyc' = [cyc EXCEPT !.tgt_writes = @ + 1]
           ELSE UNCHANGED << files, cyc >>
    /\ UNCHANGED << idx, now, bcm_headnodes, config, logger, retry_state, previous_role_status,
                    has_slurmclient_role, active, targets_dir, state_file, last_saved >>

(***************************************************************************)
(* save_state (lines 319-326) with the state built at lines 427-431, and   *)
(* line 433.                                                               *)
(***************************************************************************)
\* open(self.state_file, 'w')
SaveOpen ==
    /\ pc = "save"
    /\ pc' = "save_write"
    /\ state_file' = Truncated
    /\ cyc' = [cyc EXCEPT !.state_opens = @ + 1]
    /\ UNCHANGED << idx, now, bcm_headnodes, config, logger, retry_state, previous_role_status,
                    has_slurmclient_role, active, targets_dir, files, last_saved >>

\* json.dump(state, f); an exception is caught and logged by save_state;
\* then previous_role_status = has_slurmclient_role.
SaveWrite ==
    /\ pc = "save_write"
    /\ pc' = "sleep"
    /\ LET w == JsonDump(StateTokens(has_slurmclient_role, now, retry_state))
       IN  /\ state_file' = FileOf(w.text)
           /\ last_saved' = IF w.ok THEN w.text ELSE last_saved
           /\ cyc' = [cyc EXCEPT !.saved = w.ok, !.save_failed = ~w.ok]
    /\ previous_role_status' = has_slurmclient_role
    /\ UNCHANGED << idx, now, bcm_headnodes, config, logger, retry_state, has_slurmclient_role,
                    active, targets_dir, files >>

(***************************************************************************)
(* time.sleep(check_interval), then the next iteration; the history of the *)
(* cycle starts afresh.                                                    *)
(***************************************************************************)
Sleep ==
    /\ pc = "sleep"
    /\ now + check_interval <= MaxCycles * check_interval
    /\ now' = now + check_interval
    /\ pc' = "probe"
    /\ cyc' = NewCycle(cyc.fresh)
    /\ UNCHANGED << idx, bcm_headnodes, config, logger, retry_state, previous_role_status,
                    has_slurmclient_role, world >>

(***************************************************************************)
(* except Exception (lines 441-443): an exception that reaches the loop    *)
(* boundary is logged, the handler sleeps check_interval and the loop goes *)
(* on.  Such an exception comes from a statement outside the try blocks of *)
(* the helpers: the configuration lookups in the bodies of                 *)
(* test_bcm_connectivity, manage_service and handle_service_retry.  The    *)
(* requests, the commands, the target file operations and save_state catch *)
(* their own.                                                              *)
(***************************************************************************)
RaisePoints == {"probe", "manage", "retry"}

\* Mutant: the exception is not caught and ends the loop.
OnExceptionExit(at) == "done"

\* Where the loop is after an exception raised at position at.
OnException(at) == "sleep"

UnexpectedError ==
    /\ pc \in RaisePoints
    /\ pc' = OnException(pc)
    /\ idx' = 0
    /\ cyc' = [NewCycle(cyc.fresh) EXCEPT
                 !.outcome = "error",
                 !.start_cmds = cyc.start_cmds, !.start_ok = cyc.start_ok,
                 !.stop_cmds = cyc.stop_cmds, !.stop_ok = cyc.stop_ok,
                 !.retry0 = cyc.retry0, !.prev0 = cyc.prev0]
    /\ UNCHANGED << now, bcm_headnodes, config, logger, retry_state, previous_role_status,
                    has_slurmclient_role, world >>

(***************************************************************************)
(* The process ends (KeyboardInterrupt breaks the loop, or the process is  *)
(* killed); at "done" retry_state is what the process held when it ended.  *)
(* A new process is constructed: __init__ sets retry_state to {} and       *)
(* monitor_loop starts over.                                               *)
(***************************************************************************)
\* Where the interrupt found the process: in one of the requests of the
\* probe or of the query ("query"), or at the position itself.
InterruptedAt(at) == IF at \in {"probe_req", "query_req"} THEN "query" ELSE at

Interrupt ==
    /\ pc # "done"
    /\ pc' = "done"
    /\ idx' = 0
    /\ UNCHANGED retry_state
    /\ previous_role_status' = PyNone
    /\ has_slurmclient_role' = PyNone
    /\ cyc' = [NewCycle(TRUE) EXCEPT
                 !.interrupted_at = InterruptedAt(pc),
                 !.retry0 = EmptyDict, !.prev0 = PyNone,
                 !.start_cmds = cyc.start_cmds, !.stop_cmds = cyc.stop_cmds,
                 !.tgt_called = cyc.tgt_called, !.state_opens = cyc.state_opens,
                 !.saved = cyc.saved]
    /\ UNCHANGED << now, bcm_headnodes, config, logger, world >>

\* self.retry_state of a newly constructed monitor (__init__, line 41).
InitialRetryState(persisted) == EmptyDict

Restart ==
    /\ pc = "done"
    /\ pc' = "start"
    /\ retry_state' = InitialRetryState(LoadedRetry(load_state(state_file)))
    /\ previous_role_status' = PyNone
    /\ has_slurmclient_role' = PyNone
    /\ cyc' = [NewCycle(TRUE) EXCEPT
                 !.retry0 = InitialRetryState(LoadedRetry(load_state(state_file))),
                 !.prev0 = PyNone]
    /\ UNCHANGED << idx, now, bcm_headnodes, config, logger, world >>

(***************************************************************************)
(* The environment, between two cycles (during the sleep, before the next  *)
(* probe): the service crashes or is started                               *)
(* by an operator, the shared directory is unmounted, remounted or made    *)
(* read-only, the target file is removed by someone else.  Within a cycle  *)
(* the environment shows in the outcomes of the commands (start, settle,   *)
(* stop).                                                                  *)
(***************************************************************************)
Between == pc = "probe"

ServiceChange ==
    /\ Between
    /\ active' = ~active
    /\ UNCHANGED cyc
    /\ UNCHANGED << agent, now, bcm_headnodes, config, logger, targets_dir, files, state_file, last_saved >>

DirChange ==
    /\ Between
    /\ \E d \in DirStates \ {targets_dir} : targets_dir' = d
    /\ UNCHANGED cyc
    /\ UNCHANGED << agent, now, bcm_headnodes, config, logger, active, files, state_file, last_saved >>

TargetVanishes ==
    /\ Between
    /\ files[target_file].exists
    /\ files' = [files EXCEPT ![target_file] = NoFile]
    /\ UNCHANGED cyc
    /\ UNCHANGED << agent, now, bcm_headnodes, config, logger, active, targets_dir, state_file, last_saved >>

Next ==
    \/ LoadState
    \/ Probe
    \/ ProbeRequest
    \/ QueryRequest
    \/ ManageService
    \/ HandleServiceRetry
    \/ ManageTargets
    \/ TmpWrite
    \/ Rename
    \/ SaveOpen
    \/ SaveWrite
    \/ Sleep
    \/ UnexpectedError
    \/ Interrupt
    \/ Restart
    \/ ServiceChange
    \/ DirChange
    \/ TargetVanishes

Spec == Init /\ [][Next]_vars

(***************************************************************************)
(* The multi-exporter monitor (automation/role-monitor/                    *)
(* bcm_role_monitor_dcgm.py, class BCMRoleMonitor).  It is a program of    *)
(* its own with the same kind of state; under SpecDcgm the variables hold: *)
(*   previous_role_status   self.state["has_role"]                         *)
(*   retry_state            self.state["service_retries"]                  *)
(*   has_slurmclient_role   has_role, the local of run                     *)
(*   active                 which of MANAGED_SERVICES are active           *)
(*   idx                    position in bcm_headnodes or MANAGED_SERVICES  *)
(***************************************************************************)
DcgmMaxCycles == 2

node_exporter_port == 9100
cgroup_exporter_port == 9306
nvidia_gpu_exporter_port == 9445

MANAGED_SERVICES ==
    << "node_exporter", "cgroup_exporter", "nvidia_gpu_exporter", "dcgm-exporter" >>
Services == {MANAGED_SERVICES[i] : i \in 1..Len(MANAGED_SERVICES)}

\* One entry of the targets list of write_prometheus_targets.
TargetEntry(port, job) ==
    << ObjOpen(""),
       ArrOpen("targets"), Tok("", "str", hostname, port), ArrClose,
       ObjOpen("labels"),
       Tok("job", "str", job, 0),
       Tok("cluster", "str", cluster_name, 0),
       Tok("hostname", "str", hostname, 0),
       ObjClose, ObjClose >>

\* targets of write_prometheus_targets, as json.dump writes it.
DcgmTargetTokens ==
    << ArrOpen("") >>
    \o TargetEntry(node_exporter_port, "node_exporter")
    \o TargetEntry(cgroup_exporter_port, "cgroup_exporter")
    \o TargetEntry(nvidia_gpu_exporter_port, "gpu_exporter")
    \o TargetEntry(dcgm_exporter_port, "dcgm_exporter")
    \o << ArrClose >>

\* self.state["service_retries"], a dict keyed by service name: its members
\* in insertion order, which is the order of MANAGED_SERVICES.
RECURSIVE RetriesTokens(_, _)
RetriesTokens(d, i) ==
    IF i > Len(MANAGED_SERVICES) THEN <<>>
    ELSE (IF MANAGED_SERVICES[i] \in DOMAIN d
          THEN << Member(MANAGED_SERVICES[i], PyInt(d[MANAGED_SERVICES[i]])) >>
          ELSE <<>>) \o RetriesTokens(d, i + 1)

\* self.state, as json.dump writes it.
DcgmStateTokens(has_role, d) ==
    << ObjOpen(""), Member("has_role", has_role), ObjOpen("service_retries") >>
    \o RetriesTokens(d, 1) \o << ObjClose, ObjClose >>

\* _load_state: the loaded dict (as its text), or the default state when the
\* file is missing or json.load raises.
DcgmLoadState(file) ==
    IF file.exists /\ JsonLoads(file.data) THEN file.data
    ELSE DcgmStateTokens(PyFalse, EmptyDict)

\* state["service_retries"] of a loaded state.
LoadedRetries(text) ==
    LET at == {i \in 1..Len(text) : Depth(text, i) = 2 /\ text[i].t = "int"}
    IN  [s \in {text[i].k : i \in at} |->
           text[CHOOSE i \in at : text[i].k = s].v]

\* check_bcm_role: an endpoint whose response is read and parsed without an
\* exception decides the result; any exception moves on to the next one.
DcgmEndpointAnswers(r) == r.status = "200" /\ r.json_ok

\* has_role of check_bcm_role for a parsed response: "slurmclient" in roles
\* of this node's device, False when the node is not in the list.
DcgmHasRole(r) ==
    PyBool(r.listed /\ "slurmclient" \in {r.roles[j] : j \in 1..Len(r.roles)})

\* The outcomes of manage_service(service, "start"): both commands exit 0,
\* systemctl start fails, or systemctl enable fails after a good start.
StartOutcomes == {"ok", "start_failed", "enable_failed"}

\* retries + 1 on a failed start, 0 on success (handle_role_added).
Retried(d, svc, success) ==
    LET retries == IF svc \in DOMAIN d THEN d[svc] ELSE 0
    IN  [s \in DOMAIN d \cup {svc} |->
           IF s = svc THEN (IF success THEN 0 ELSE retries + 1) ELSE d[s]]

AllActive == \A s \in Services : active[s]

\* DEFAULT_CONFIG of the multi-exporter monitor (lines 22-36).
DEFAULT_CONFIG ==
    [ bcm_headnodes |-> "[]",
      bcm_port |-> "8081",
      cert_path |-> "/etc/bcm-role-monitor/admin.pem",
      key_path |-> "/etc/bcm-role-monitor/admin.key",
      check_interval |-> "60",
      retry_interval |-> "600",
      max_retries |-> "3",
      prometheus_targets_dir |-> "/cm/shared/apps/dcgm-exporter/prometheus-targets",
      node_exporter_port |-> "9100",
      cgroup_exporter_port |-> "9306",
      nvidia_gpu_exporter_port |-> "9445",
      dcgm_exporter_port |-> "9400",
      cluster_name |-> "slurm" ]

\* _load_config: merged_config = DEFAULT_CONFIG.copy(); update(config).
DcgmLoopConfig(headnodes) ==
    [k \in DOMAIN DEFAULT_CONFIG |->
       IF k \in DOMAIN LoopSettings(headnodes) THEN LoopSettings(headnodes)[k]
       ELSE DEFAULT_CONFIG[k]]

DcgmInit ==
    /\ pc = "d_top"
    /\ idx = 0
    /\ now = 0
    /\ bcm_headnodes \in {<<>>, Headnodes}
    /\ config = DcgmLoopConfig(bcm_headnodes)
    /\ logger = TRUE
    /\ retry_state = EmptyDict
    /\ previous_role_status = PyFalse
    /\ has_slurmclient_role = PyNone
    /\ active \in {[s \in Services |-> FALSE], [s \in Services |-> TRUE]}
    /\ targets_dir \in {"ok", "missing"}
    /\ files = [p \in Paths |-> NoFile]
    /\ state_file = NoFile
    /\ last_saved = <<>>
    /\ cyc = NewCycle(TRUE)

\* run once check_bcm_role has returned has_role (lines 309-316).
DcgmDecide(has_role, answered) ==
    /\ has_slurmclient_role' = has_role
    /\ cyc' = [cyc EXCEPT !.outcome = "determinate", !.role = has_role,
                          !.all_failed = ~answered]
    /\ IF Truthy(has_role) /\ ~Truthy(previous_role_status)
       THEN pc' = "d_added" /\ idx' = 1
       ELSE IF ~Truthy(has_role) /\ Truthy(previous_role_status)
       THEN pc' = "d_removed" /\ idx' = 1
       ELSE pc' = "d_sleep" /\ idx' = 0

\* Top of the loop of run: check_bcm_role begins.
DcgmTop ==
    /\ pc = "d_top"
    /\ IF bcm_headnodes = <<>>
       THEN DcgmDecide(PyFalse, FALSE)
       ELSE /\ pc' = "d_check"
            /\ idx' = 1
            /\ UNCHANGED has_slurmclient_role
            /\ cyc' = [cyc EXCEPT !.active0 = AllActive,
                                  !.target0 = files[target_file].exists]
    /\ UNCHANGED << now, bcm_headnodes, config, logger, retry_state, previous_role_status, world >>

\* One request of check_bcm_role, to head node idx.
DcgmCheckRequest ==
    /\ pc = "d_check"
    /\ \E r \in Responses :
         IF DcgmEndpointAnswers(r)
         THEN DcgmDecide(DcgmHasRole(r), TRUE)
         ELSE IF idx < Len(bcm_headnodes)
         THEN /\ pc' = "d_check"
              /\ idx' = idx + 1
              /\ UNCHANGED << has_slurmclient_role, cyc >>
         ELSE DcgmDecide(PyFalse, FALSE)
    /\ UNCHANGED << now, bcm_headnodes, config, logger, retry_state, previous_role_status, world >>

\* handle_role_added, one service of its loop: manage_service(service,
\* "start") and the retry count.
DcgmStartService ==
    /\ pc = "d_added"
    /\ \E outcome \in StartOutcomes :
         LET svc == MANAGED_SERVICES[idx]
         IN  /\ active' = IF outcome = "start_failed" THEN active
                          ELSE [active EXCEPT ![svc] = TRUE]
             /\ retry_state' = Retried(retry_state, svc, outcome = "ok")
             /\ cyc' = [cyc EXCEPT !.svc_called = TRUE, !.start_cmds = @ + 1]
    /\ IF idx < Len(MANAGED_SERVICES)
       THEN pc' = "d_added" /\ idx' = idx + 1
       ELSE pc' = "d_write_open" /\ idx' = 0
    /\ UNCHANGED << now, bcm_headnodes, config, logger, previous_role_status, has_slurmclient_role,
                    targets_dir, files, state_file, last_saved >>

\* write_prometheus_targets: open(target_file, "w"); when open raises the
\* error is logged and handle_role_added goes on (lines 278-279).
DcgmWriteOpen ==
    /\ pc = "d_write_open"
    /\ IF targets_dir = "ok"
       THEN /\ pc' = "d_write"
            /\ files' = [files EXCEPT ![target_file] = Truncated]
            /\ UNCHANGED previous_role_status
            /\ cyc' = [cyc EXCEPT !.tgt_called = TRUE, !.tgt_dir = targets_dir]
       ELSE /\ pc' = "d_save"
            /\ UNCHANGED files
            /\ previous_role_status' = PyTrue
            /\ cyc' = [cyc EXCEPT !.tgt_called = TRUE, !.tgt_dir = targets_dir]
    /\ UNCHANGED << idx, now, bcm_headnodes, config, logger, retry_state, has_slurmclient_role,
                    active, targets_dir, state_file, last_saved >>

\* json.dump(targets, f) into the target file, then state["has_role"] = True.
DcgmWrite ==
    /\ pc = "d_write"
    /\ pc' = "d_save"
    /\ files' = [files EXCEPT ![target_file] = FileOf(JsonDump(DcgmTargetTokens).text)]
    /\ previous_role_status' = PyTrue
    /\ cyc' = [cyc EXCEPT !.tgt_writes = @ + 1]
    /\ UNCHANGED << idx, now, bcm_headnodes, config, logger, retry_state, has_slurmclient_role,
                    active, targets_dir, state_file, last_saved >>

\* handle_role_removed, one service of its loop: manage_service(service,
\* "stop"), whose result is not looked at.
DcgmStopService ==
    /\ pc = "d_removed"
    /\ \E rc_ok \in BOOLEAN :
         LET svc == MANAGED_SERVICES[idx]
         IN  /\ active' = IF rc_ok THEN [active EXCEPT ![svc] = FALSE] ELSE active
             /\ cyc' = [cyc EXCEPT !.svc_called = TRUE, !.stop_cmds = @ + 1]
    /\ IF idx < Len(MANAGED_SERVICES)
       THEN pc' = "d_removed" /\ idx' = idx + 1
       ELSE pc' = "d_unlink" /\ idx' = 0
    /\ UNCHANGED << now, bcm_headnodes, config, logger, retry_state, previous_role_status,
                    has_slurmclient_role, targets_dir, files, state_file, last_saved >>

\* remove_prometheus_targets, then state["has_role"] = False and
\* state["service_retries"] = {} (lines 292-293).
DcgmUnlink ==
    /\ pc = "d_unlink"
    /\ pc' = "d_save"
    /\ IF PathExists(target_file) /\ targets_dir = "ok"
       THEN /\ files' = [files EXCEPT ![target_file] = NoFile]
            /\ cyc' = [cyc EXCEPT !.tgt_called = TRUE, !.tgt_dir = targets_dir,
                                  !.tgt_removes = @ + 1]
       ELSE /\ UNCHANGED files
            /\ cyc' = [cyc EXCEPT !.tgt_called = TRUE, !.tgt_dir = targets_dir]
    /\ previous_role_status' = PyFalse
    /\ retry_state' = EmptyDict
    /\ UNCHANGED << idx, now, bcm_headnodes, config, logger, has_slurmclient_role, active,
                    targets_dir, state_file, last_saved >>

\* _save_state: open(self.state_file, "w")
DcgmSaveOpen ==
    /\ pc = "d_save"
    /\ pc' = "d_save_write"
    /\ state_file' = Truncated
    /\ cyc' = [cyc EXCEPT !.state_opens = @ + 1]
    /\ UNCHANGED << idx, now, bcm_headnodes, config, logger, retry_state, previous_role_status,
                    has_slurmclient_role, active, targets_dir, files, last_saved >>

\* _save_state: json.dump(self.state, f)
DcgmSaveWrite ==
    /\ pc = "d_save_write"
    /\ pc' = "d_sleep"
    /\ LET w == JsonDump(DcgmStateTokens(previous_role_status, retry_state))
       IN  /\ state_file' = FileOf(w.text)
           /\ last_saved' = IF w.ok THEN w.text ELSE last_saved
           /\ cyc' = [cyc EXCEPT !.saved = w.ok, !.save_failed = ~w.ok]
    /\ UNCHANGED << idx, now, bcm_headnodes, config, logger, retry_state, previous_role_status,
                    has_slurmclient_role, active, targets_dir, files >>

\* time.sleep(check_interval), then the next iteration, which assigns
\* has_role before reading it.
DcgmSleep ==
    /\ pc = "d_sleep"
    /\ now + check_interval <= DcgmMaxCycles * check_interval
    /\ now' = now + check_interval
    /\ pc' = "d_top"
    /\ has_slurmclient_role' = PyNone
    /\ cyc' = NewCycle(FALSE)
    /\ UNCHANGED << idx, bcm_headnodes, config, logger, retry_state, previous_role_status, world >>

\* KeyboardInterrupt breaks the loop of run, or the process is killed: what
\* the process held in memory is gone.
DcgmInterrupt ==
    /\ pc # "d_done"
    /\ pc' = "d_done"
    /\ idx' = 0
    /\ has_slurmclient_role' = PyNone
    /\ previous_role_status' = PyNone
    /\ retry_state' = EmptyDict
    /\ cyc' = [NewCycle(TRUE) EXCEPT !.interrupted_at = pc, !.retry0 = EmptyDict,
                                     !.prev0 = PyNone]
    /\ UNCHANGED << now, bcm_headnodes, config, logger, world >>

\* A new process: __init__ loads self.state from the state file.
DcgmRestart ==
    /\ pc = "d_done"
    /\ pc' = "d_top"
    /\ previous_role_status' = DictGet(DcgmLoadState(state_file), "has_role")
    /\ retry_state' = LoadedRetries(DcgmLoadState(state_file))
    /\ cyc' = [NewCycle(TRUE) EXCEPT
                 !.prev0 = DictGet(DcgmLoadState(state_file), "has_role"),
                 !.retry0 = LoadedRetries(DcgmLoadState(state_file))]
    /\ UNCHANGED << idx, now, bcm_headnodes, config, logger, has_slurmclient_role, world >>

\* The environment of the multi-exporter monitor, between two cycles: the
\* dcgm-exporter unit crashes or is started by an operator (the other units
\* change through the outcomes of the monitor's own commands), the shared
\* directory goes away or comes back, the target file is removed by someone
\* else.
DcgmServiceChange ==
    /\ pc = "d_top"
    /\ active' = [active EXCEPT ![service] = ~@]
    /\ UNCHANGED << agent, now, bcm_headnodes, config, logger, targets_dir, files, state_file,
                    last_saved, cyc >>

DcgmDirChange ==
    /\ pc = "d_top"
    /\ targets_dir' = IF targets_dir = "ok" THEN "missing" ELSE "ok"
    /\ UNCHANGED << agent, now, bcm_headnodes, config, logger, active, files, state_file,
                    last_saved, cyc >>

DcgmTargetVanishes ==
    /\ pc = "d_top"
    /\ files[target_file].exists
    /\ files' = [files EXCEPT ![target_file] = NoFile]
    /\ UNCHANGED << agent, now, bcm_headnodes, config, logger, active, targets_dir, state_file,
                    last_saved, cyc >>

DcgmNext ==
    \/ DcgmTop
    \/ DcgmCheckRequest
    \/ DcgmStartService
    \/ DcgmWriteOpen
    \/ DcgmWrite
    \/ DcgmStopService
    \/ DcgmUnlink
    \/ DcgmSaveOpen
    \/ DcgmSaveWrite
    \/ DcgmSleep
    \/ DcgmInterrupt
    \/ DcgmRestart
    \/ DcgmServiceChange
    \/ DcgmDirChange
    \/ DcgmTargetVanishes

SpecDcgm == DcgmInit /\ [][DcgmNext]_vars

(***************************************************************************)
(* The monitor under a stable environment.  From LiveStart on the          *)
(* authority is reachable and reports the same role for this node, the     *)
(* service-manager commands succeed, the target directory is writable, the *)
(* agent process keeps running and nothing but the agent changes the unit  *)
(* or the files.  LiveInit is the top of the loop at LiveStart with what   *)
(* the earlier, unstable period can have left behind: any service and      *)
(* target state, and any retry state and previous role the agent can hold. *)
(* has_slurmclient_role (not read before the query assigns it) holds the   *)
(* role the authority reports from LiveStart on.                           *)
(***************************************************************************)
\* The clock at the start: late enough for max_retries failed starts, each
\* retry_interval after the one before.
LiveStart == max_retries * retry_interval

\* By LiveEnd every backoff that was pending at LiveStart has elapsed.
LiveEnd == LiveStart + retry_interval + check_interval

\* The retry information after n failed starts, the last one at time t.
RECURSIVE Failures(_, _)
Failures(n, t) ==
    IF n = 0 THEN ZeroRetry
    ELSE RecordFailure(Failures(n - 1, t - retry_interval), t)

LiveRetryStates ==
    {EmptyDict, DictOf(ZeroRetry)} \cup
    { DictOf(Failures(n, LiveStart - k * check_interval)) :
        n \in 1..max_retries, k \in 1..BackoffCycles }

LiveInit ==
    /\ pc = "probe"
    /\ idx = 0
    /\ now = LiveStart
    /\ bcm_headnodes = Headnodes
    /\ config = LoopConfig(bcm_headnodes)
    /\ logger = TRUE
    /\ previous_role_status \in {PyNone, PyTrue, PyFalse}
    /\ retry_state \in LiveRetryStates
    /\ previous_role_status = PyNone => retry_state = EmptyDict
    /\ previous_role_status = PyFalse => retry_state \in {EmptyDict, DictOf(ZeroRetry)}
    /\ has_slurmclient_role \in {PyTrue, PyFalse}
    /\ active \in BOOLEAN
    /\ targets_dir = "ok"
    /\ \E f \in {NoFile, FileOf(JsonDump(TargetTokens).text)} :
         files = [p \in Paths |-> IF p = target_file THEN f ELSE NoFile]
    /\ state_file = NoFile
    /\ last_saved = <<>>
    /\ cyc = NewCycle(previous_role_status = PyNone)

\* test_bcm_connectivity finds the certificates and a head node that
\* answers.
CalmProbe == Probe /\ pc' = "probe_req"
CalmProbeRequest == ProbeRequest /\ pc' # "sleep"

\* Some head node gives this node's roles, and they are the same as before.
CalmQueryRequest == QueryRequest /\ has_slurmclient_role' = has_slurmclient_role

\* systemctl stop and systemctl start succeed.
CalmManageService ==
    ManageService /\ (cyc'.stop_cmds > cyc.stop_cmds => cyc'.stop_ok)
CalmHandleServiceRetry ==
    HandleServiceRetry /\ (cyc'.start_cmds > cyc.start_cmds => cyc'.start_ok)

\* time.sleep(check_interval).  Past LiveEnd no backoff is pending and the
\* clock is read only for last_check: it is held there.
LiveSleep ==
    /\ pc = "sleep"
    /\ now' = IF now < LiveEnd THEN now + check_interval ELSE now
    /\ pc' = "probe"
    /\ cyc' = NewCycle(cyc.fresh)
    /\ UNCHANGED << idx, bcm_headnodes, config, logger, retry_state, previous_role_status,
                    has_slurmclient_role, world >>

LiveNext ==
    \/ CalmProbe
    \/ CalmProbeRequest
    \/ CalmQueryRequest
    \/ CalmManageService
    \/ CalmHandleServiceRetry
    \/ ManageTargets
    \/ TmpWrite
    \/ Rename
    \/ SaveOpen
    \/ SaveWrite
    \/ LiveSleep

\* The agent process is scheduled: a step of the loop that can be taken is
\* taken.
LiveSpec == LiveInit /\ [][LiveNext]_vars /\ WF_vars(LiveNext)

(***************************************************************************)
(* Construction of the monitor (__init__, lines 28-44): load_config runs   *)
(* first, setup_logging last.  files holds the configuration file; the     *)
(* positions are "c_load" (load_config begins), "c_log_error" (in its      *)
(* except handler, at self.logger.error), "c_log_info" (after the default  *)
(* file was written, at self.logger.info), "c_logging" (load_config has    *)
(* returned), "c_ready" (constructed) and "c_aborted" (an exception left   *)
(* __init__ and ended the process; cyc.interrupted_at says where).         *)
(***************************************************************************)
config_file == "/etc/bcm-role-monitor-dcgm/config.json"

\* What json.load finds in the file: an object with some of the recognized
\* keys, valid JSON that is not an object, text that does not parse, or a
\* file that cannot be read.
ConfigObject(d) == FileOf([kind |-> "object", d |-> d])
ConfigFiles ==
    {NoFile}
    \cup { FileOf([kind |-> k, d |-> <<>>]) : k \in {"unreadable", "malformed", "list"} }
    \cup { ConfigObject([k \in S |-> "custom"]) : S \in SUBSET ConfigKeys }

ConfigInit ==
    /\ pc = "c_load"
    /\ idx = 0
    /\ now = 0
    /\ bcm_headnodes = <<>>
    /\ config = NoConfig
    /\ logger = FALSE
    /\ retry_state = EmptyDict
    /\ previous_role_status = PyNone
    /\ has_slurmclient_role = PyNone
    /\ active = FALSE
    /\ targets_dir = "ok"
    /\ \E f \in ConfigFiles : files = [p \in {config_file} |-> f]
    /\ state_file = NoFile
    /\ last_saved = <<>>
    /\ cyc = NewCycle(TRUE)

\* The process ends with a traceback at position at.
Aborted(at) ==
    /\ pc' = "c_aborted"
    /\ cyc' = [cyc EXCEPT !.interrupted_at = at]

\* load_config up to its return or its first use of self.logger.
LoadConfig ==
    /\ pc = "c_load"
    /\ LET f == files[config_file]
       IN  IF f.exists
           THEN /\ UNCHANGED files
                /\ IF f.data.kind = "object"
                   THEN /\ config' = Merged(f.data.d)
                        /\ pc' = "c_logging"
                        /\ UNCHANGED cyc
                   ELSE \* open, json.load or config[key] = value raised
                        /\ pc' = "c_log_error"
                        /\ UNCHANGED << config, cyc >>
           ELSE \E writable \in BOOLEAN :
                  IF writable
                  THEN /\ files' = [files EXCEPT ![config_file] = ConfigObject(default_config)]
                       /\ pc' = "c_log_info"
                       /\ UNCHANGED << config, cyc >>
                  ELSE \* os.makedirs or open raises, outside any try
                       /\ Aborted("c_create")
                       /\ UNCHANGED << config, files >>
    /\ UNCHANGED << idx, now, bcm_headnodes, logger, retry_state, previous_role_status,
                    has_slurmclient_role, active, targets_dir, state_file, last_saved >>

\* self.logger.error(...) or self.logger.info(...) in load_config, then
\* return default_config.  Without the attribute the call raises
\* AttributeError (in the except handler, or outside any try).
LoadConfigLogs ==
    /\ pc \in {"c_log_error", "c_log_info"}
    /\ IF logger
       THEN /\ config' = default_config
            /\ pc' = "c_logging"
            /\ UNCHANGED cyc
       ELSE /\ Aborted(pc)
            /\ UNCHANGED config
    /\ UNCHANGED << idx, now, bcm_headnodes, logger, retry_state, previous_role_status,
                    has_slurmclient_role, world >>

\* The rest of __init__: retry_state = {} and setup_logging, which raises
\* when the log directory or the log file cannot be written.
SetupLogging ==
    /\ pc = "c_logging"
    /\ retry_state' = EmptyDict
    /\ \E ok \in BOOLEAN :
         IF ok
         THEN /\ logger' = TRUE
              /\ pc' = "c_ready"
              /\ UNCHANGED cyc
         ELSE /\ Aborted("c_logging")
              /\ UNCHANGED logger
    /\ UNCHANGED << idx, now, bcm_headnodes, config, previous_role_status,
                    has_slurmclient_role, world >>

\* The agent is launched again (main, lines 445-481): a new object.
Relaunch ==
    /\ pc = "c_aborted"
    /\ pc' = "c_load"
    /\ config' = NoConfig
    /\ logger' = FALSE
    /\ cyc' = NewCycle(TRUE)
    /\ UNCHANGED << idx, now, bcm_headnodes, retry_state, previous_role_status,
                    has_slurmclient_role, world >>

ConfigNext ==
    \/ LoadConfig
    \/ LoadConfigLogs
    \/ SetupLogging
    \/ Relaunch

SpecConfig == ConfigInit /\ [][ConfigNext]_vars

(***************************************************************************)
(* Several agents, one per node, against one shared targets directory.     *)
(* Each agent runs manage_prometheus_targets (lines 254-307) with its own   *)
(* self.hostname; the steps of different agents interleave freely.  The    *)
(* part of a cycle before manage_prometheus_targets touches nothing in the *)
(* directory and is one step here.  In this specification pc and           *)
(* has_slurmclient_role are indexed by node.                               *)
(***************************************************************************)
\* socket.gethostname() on the i-th node.
NodeName(i) == "node" \o ToString(i)
Nodes == {NodeName(i) : i \in 1..MaxNodes}

\* The paths an agent on host uses in the targets directory.
NodePaths(host) == {target_file_of(host), temp_file_of(target_file_of(host))}
SharedPaths == UNION {NodePaths(h) : h \in Nodes}

SharedInit ==
    /\ pc = [h \in Nodes |-> "sleep"]
    /\ has_slurmclient_role = [h \in Nodes |-> PyNone]
    /\ files = [p \in SharedPaths |-> NoFile]
    /\ targets_dir = "ok"
    /\ idx = 1
    /\ now = 0
    /\ bcm_headnodes = Headnodes
    /\ config = LoopConfig(bcm_headnodes)
    /\ logger = TRUE
    /\ retry_state = EmptyDict
    /\ previous_role_status = PyNone
    /\ active = FALSE
    /\ state_file = NoFile
    /\ last_saved = <<>>
    /\ cyc = NewCycle(TRUE)

\* Lines 404-421 of a cycle whose role is determinate: the cycle goes on to
\* manage_prometheus_targets(has_slurmclient_role).
NodeCheck(h) ==
    /\ pc[h] = "sleep"
    /\ \E role \in {PyTrue, PyFalse} :
         has_slurmclient_role' = [has_slurmclient_role EXCEPT ![h] = role]
    /\ pc' = [pc EXCEPT ![h] = "targets"]
    /\ UNCHANGED << idx, now, bcm_headnodes, config, logger, retry_state, previous_role_status,
                    active, targets_dir, files, state_file, last_saved, cyc >>

\* manage_prometheus_targets of the agent on h, up to its first file
\* operation (open of the temporary file, or os.remove).
NodeManageTargets(h) ==
    /\ pc[h] = "targets"
    /\ LET should_be_scraped == Truthy(has_slurmclient_role[h])
           own == target_file_of(h)
           temp_file == temp_file_of(own)
       IN  IF ~DirExists(targets_dir)
           THEN /\ pc' = [pc EXCEPT ![h] = "sleep"]
                /\ UNCHANGED files
           ELSE IF should_be_scraped
           THEN IF targets_dir = "ok"
                THEN /\ pc' = [pc EXCEPT ![h] = "tmp_write"]
                     /\ files' = [files EXCEPT ![temp_file] = Truncated]
                ELSE /\ pc' = [pc EXCEPT ![h] = "sleep"]
                     /\ UNCHANGED files
           ELSE /\ pc' = [pc EXCEPT ![h] = "sleep"]
                /\ IF PathExists(own) /\ targets_dir = "ok"
                   THEN files' = [files EXCEPT ![own] = NoFile]
                   ELSE UNCHANGED files
    /\ UNCHANGED << idx, now, bcm_headnodes, config, logger, retry_state, previous_role_status,
                    has_slurmclient_role, active, targets_dir, state_file, last_saved, cyc >>

\* json.dump(target_data, f) of the agent on h.
NodeTmpWrite(h) ==
    /\ pc[h] = "tmp_write"
    /\ LET temp_file == temp_file_of(target_file_of(h))
           w == JsonDump(TargetTokensOf(h))
       IN  /\ files' = [files EXCEPT ![temp_file] = FileOf(w.text)]
           /\ pc' = [pc EXCEPT ![h] = IF w.ok THEN "rename" ELSE "sleep"]
    /\ UNCHANGED << idx, now, bcm_headnodes, config, logger, retry_state, previous_role_status,
                    has_slurmclient_role, active, targets_dir, state_file, last_saved, cyc >>

\* os.rename(temp_file, target_file) of the agent on h.
NodeRename(h) ==
    /\ pc[h] = "rename"
    /\ pc' = [pc EXCEPT ![h] = "sleep"]
    /\ LET own == target_file_of(h)
       IN  IF targets_dir = "ok"
           THEN files' = Renamed(files, temp_file_of(own), own)
           ELSE UNCHANGED files
    /\ UNCHANGED << idx, now, bcm_headnodes, config, logger, retry_state, previous_role_status,
                    has_slurmclient_role, active, targets_dir, state_file, last_saved, cyc >>

\* The shared directory is removed, remounted read-only or restored while
\* the agents run.
SharedDirChange ==
    /\ \E d \in DirStates \ {targets_dir} : targets_dir' = d
    /\ UNCHANGED << agent, now, bcm_headnodes, config, logger, active, files, state_file,
                    last_saved, cyc >>

SharedNext ==
    \/ \E h \in Nodes : NodeCheck(h)
    \/ \E h \in Nodes : NodeManageTargets(h)
    \/ \E h \in Nodes : NodeTmpWrite(h)
    \/ \E h \in Nodes : NodeRename(h)
    \/ SharedDirChange

SpecShared == SharedInit /\ [][SharedNext]_vars

(***************************************************************************)
(* Properties.                                                             *)
(***************************************************************************)
AfterService == pc \in {"targets", "tmp_write", "rename", "save", "save_write", "sleep"}
Running == pc \notin {"start", "done"}
\* The cycle has just ended without an exception at the loop boundary (the
\* environment acts after the sleep).
CycleEnded == pc = "sleep" /\ cyc.outcome # "error"
Norm(d) == IF Has(d) THEN d[service] ELSE ZeroRetry
Attempts0 == Norm(cyc.retry0).attempts

\* The descriptor the specification gives for node1: target node1:9400 and
\* the labels job, cluster and hostname.
IsDescriptor(f) ==
    /\ f.exists
    /\ JsonLoads(f.data)
    /\ \E i \in 2..Len(f.data) :
         f.data[i] = Tok("", "str", "node1", 9400) /\ f.data[i - 1] = ArrOpen("targets")
    /\ \E i \in 1..Len(f.data) : f.data[i] = Tok("job", "str", "dcgm-exporter", 0)
    /\ \E i \in 1..Len(f.data) : f.data[i] = Tok("cluster", "str", "slurm", 0)
    /\ \E i \in 1..Len(f.data) : f.data[i] = Tok("hostname", "str", "node1", 0)

\* C1: in a cycle whose connectivity probe failed, or in which no head node
\* answered the role query (Indeterminate), the cycle goes straight to the
\* sleep: no start or stop command is issued, the target file and its
\* temporary file are neither written nor removed, the state file is not
\* opened for writing, and retry_state and previous_role_status are what they
\* were when the cycle began.
C1_IndeterminateCycleChangesNothing ==
    (Running /\ (cyc.outcome = "probe_failed" \/ cyc.all_failed)) =>
        /\ pc = "sleep"
        /\ cyc.start_cmds = 0 /\ cyc.stop_cmds = 0
        /\ cyc.tgt_writes = 0 /\ cyc.tgt_removes = 0 /\ cyc.tmp_opens = 0
        /\ ~cyc.svc_called /\ ~cyc.tgt_called
        /\ cyc.state_opens = 0
        /\ retry_state = cyc.retry0
        /\ previous_role_status = cyc.prev0

C1_Witness ==
    /\ pc = "sleep" /\ cyc.all_failed /\ cyc.outcome = "indeterminate"
    /\ active /\ files[target_file].exists /\ state_file.exists
    /\ Has(retry_state) /\ previous_role_status = PyTrue

\* C2: with max_retries = 3, a failed start attempt adds one to attempts and
\* the unit is permanently failed exactly from the third consecutive failure
\* on; in a HasRole cycle that begins with the unit permanently failed no
\* start command is issued, and the retry state stays as it is unless a
\* status check of the cycle saw the unit active, in which case it is reset
\* to zero.
C2_RetryBound ==
    Running =>
        /\ (cyc.start_cmds = 1 /\ ~cyc.start_ok) =>
              /\ Has(retry_state)
              /\ retry_state[service].attempts = Attempts0 + 1
              /\ retry_state[service].failed_permanently <=> (Attempts0 + 1 >= 3)
        /\ (Norm(cyc.retry0).failed_permanently /\ cyc.role = PyTrue) =>
              /\ cyc.start_cmds = 0
              /\ AfterService =>
                    retry_state = IF cyc.status_active THEN DictOf(ZeroRetry)
                                  ELSE cyc.retry0

C2_Witness ==
    /\ pc = "sleep" /\ cyc.role = PyTrue
    /\ Norm(cyc.retry0).failed_permanently /\ Norm(cyc.retry0).attempts = 3
    /\ cyc.start_cmds = 0 /\ ~cyc.status_active
    /\ Norm(retry_state).failed_permanently

\* C3: until the first determinate cycle of a process, previous_role_status
\* is the role the state file holds; when that is true and the first
\* determinate result is HasRole, no role change is logged, and the cycle
\* still runs manage_service and manage_prometheus_targets, which publishes
\* the descriptor when the directory is available.
C3_RestartStability ==
    /\ (cyc.fresh /\ pc \in {"probe", "probe_req", "query_req"}) =>
          previous_role_status = DictGet(load_state(state_file), "has_slurmclient_role")
    /\ (Running /\ cyc.first /\ cyc.prev0 = PyTrue /\ cyc.role = PyTrue) =>
          /\ ~cyc.logged
          /\ CycleEnded =>
                /\ cyc.svc_called
                /\ cyc.tgt_called
                /\ cyc.tgt_dir = "ok" =>
                      (cyc.tgt_writes = 1 /\ IsDescriptor(files[target_file]))

C3_Witness ==
    /\ pc = "sleep" /\ cyc.first /\ cyc.prev0 = PyTrue /\ cyc.role = PyTrue
    /\ ~cyc.logged /\ cyc.tgt_writes = 1

\* C4: whenever the target file <hostname>.json exists it holds a complete
\* descriptor (the previous one or the new one, never a truncated text); a
\* file of the directory whose text is incomplete is the temporary file.
C4_TargetNeverPartial ==
    /\ files["node1.json"].exists => IsDescriptor(files["node1.json"])
    /\ \A p \in DOMAIN files :
          (files[p].exists /\ ~JsonLoads(files[p].data)) => p = "node1.json.tmp"

C4_Witness ==
    /\ pc = "tmp_write"
    /\ IsDescriptor(files["node1.json"])
    /\ files["node1.json.tmp"].exists /\ ~JsonLoads(files["node1.json.tmp"].data)

\* C5 (as claimed): at the end of every determinate cycle the state file is
\* a complete, loadable record whose role is the cycle's role and whose
\* retry state is the retry state in memory.
C5_StateFileMatchesMemory ==
    (CycleEnded /\ cyc.outcome = "determinate") =>
        /\ state_file.exists
        /\ JsonLoads(state_file.data)
        /\ DictGet(state_file.data, "has_slurmclient_role") = cyc.role
        /\ LoadedRetry(state_file.data) = retry_state

\* C6 (as claimed): after a save that failed, loading the state file returns
\* the last state that was saved successfully.
C6_FailedSaveKeepsLastState ==
    (CycleEnded /\ cyc.save_failed) => load_state(state_file) = last_saved

\* C7 (as claimed): a restart of a process that ended during its sleep, with
\* its last cycle complete, keeps each unit's attempts, next_attempt and
\* failed_permanently (an absent entry counting as the zero value).
C7_RetryStateSurvivesRestart ==
    [][(pc = "done" /\ cyc.interrupted_at = "sleep" /\ pc' = "start")
          => Norm(retry_state') = Norm(retry_state)]_vars

\* C8: a LacksRole cycle that begins with the service inactive and no target
\* file ends with the service inactive and no target file; a HasRole cycle
\* that follows a LacksRole one (previous role false, retry state zero),
\* begins with the service inactive and no target file, finds the target
\* directory available and whose start command does not fail, ends with one start issued and verified, the service
\* active, the target file holding the descriptor of node1:9400 with labels
\* job, cluster and hostname, and the state file holding role true.
C8_EndToEnd ==
    (CycleEnded /\ cyc.outcome = "determinate" /\ ~cyc.active0 /\ ~cyc.target0) =>
        /\ cyc.role = PyFalse =>
              /\ ~active
              /\ ~files[target_file].exists
              /\ cyc.start_cmds = 0
        /\ ( /\ cyc.role = PyTrue
             /\ cyc.prev0 = PyFalse
             /\ Norm(cyc.retry0) = ZeroRetry
             /\ cyc.tgt_dir = "ok"
             /\ ~(cyc.start_cmds = 1 /\ ~cyc.start_ok) ) =>
              /\ cyc.start_cmds = 1 /\ cyc.start_ok
              /\ active
              /\ IsDescriptor(files[target_file])
              /\ DictGet(load_state(state_file), "has_slurmclient_role") = PyTrue

C8_Witness ==
    /\ pc = "sleep" /\ cyc.role = PyTrue /\ cyc.prev0 = PyFalse /\ ~cyc.first
    /\ ~cyc.active0 /\ ~cyc.target0
    /\ cyc.start_ok /\ cyc.tgt_writes = 1 /\ cyc.saved
    /\ active /\ IsDescriptor(files[target_file])

\* C9 (as claimed): the cycle that observes LacksRole after HasRole ends with
\* the service stopped, the target file absent and the retry state zero.
C9_RoleRemovedAsClaimed ==
    (CycleEnded /\ cyc.prev0 = PyTrue /\ cyc.role = PyFalse) =>
        /\ ~active
        /\ ~files[target_file].exists
        /\ Norm(retry_state) = ZeroRetry

\* C9 (amended): that cycle ends with the retry state zero; with the service
\* stopped if the stop command, when one is issued, succeeds; and with the
\* target file absent if the target directory exists and is writable.  No
\* stop is issued for an inactive service and no removal for an absent file.
C9_RoleRemoved ==
    (CycleEnded /\ cyc.prev0 = PyTrue /\ cyc.role = PyFalse) =>
        /\ Norm(retry_state) = ZeroRetry
        /\ (cyc.stop_cmds = 1 => cyc.stop_ok) => ~active
        /\ cyc.tgt_dir = "ok" => ~files[target_file].exists
        /\ ~cyc.active0 => cyc.stop_cmds = 0
        /\ ~cyc.target0 => cyc.tgt_removes = 0

C9_Witness ==
    /\ pc = "sleep" /\ cyc.prev0 = PyTrue /\ cyc.role = PyFalse
    /\ cyc.active0 /\ cyc.target0 /\ Norm(cyc.retry0).attempts > 0
    /\ cyc.stop_cmds = 1 /\ cyc.stop_ok /\ cyc.tgt_removes = 1
    /\ ~active /\ ~files[target_file].exists /\ Norm(retry_state) = ZeroRetry

\* C10: in every reachable state, failed_permanently = true implies
\* attempts >= max_retries (= 3).
C10_PermanentImpliesAttempts ==
    (Has(retry_state) /\ retry_state[service].failed_permanently) =>
        retry_state[service].attempts >= 3

C10_Witness ==
    Has(retry_state) /\ retry_state[service].failed_permanently /\ Running

\* C11: a start command is issued in a cycle only if the unit's next_attempt,
\* as the retry state held it when the cycle began, is unset or not later
\* than the time of the cycle.
C11_NoStartBeforeNextAttempt ==
    (Running /\ cyc.start_cmds > 0) =>
        /\ cyc.start_cmds = 1
        /\ Norm(cyc.retry0).next_attempt.t = "datetime" =>
              now >= Norm(cyc.retry0).next_attempt.v

\* A HasRole cycle that found the unit inactive inside its backoff and issued
\* no start command.
C11_Witness ==
    /\ pc = "sleep" /\ cyc.role = PyTrue /\ ~cyc.active0
    /\ Norm(cyc.retry0).next_attempt.t = "datetime"
    /\ now < Norm(cyc.retry0).next_attempt.v
    /\ ~Norm(cyc.retry0).failed_permanently
    /\ cyc.start_cmds = 0 /\ retry_state = cyc.retry0

\* C12 (as claimed), for the multi-exporter monitor: in a cycle in which the
\* authority answers HasRole and the role was HasRole before (no transition,
\* no retry count at max_retries), a managed service found inactive gets a
\* start command and a missing target file is published again when the
\* directory is there.
C12_ReconcileEveryCycle ==
    ( /\ pc = "d_sleep"
      /\ cyc.role = PyTrue /\ ~cyc.all_failed /\ cyc.prev0 = PyTrue
      /\ \A s \in DOMAIN cyc.retry0 : cyc.retry0[s] < max_retries ) =>
        /\ ~cyc.active0 => cyc.start_cmds > 0
        /\ (~cyc.target0 /\ targets_dir = "ok") => files[target_file].exists

C14_InterruptCompletesCycle ==
    (pc = "done" /\ (cyc.start_cmds > 0 \/ cyc.stop_cmds > 0)) =>
        /\ cyc.interrupted_at = "sleep"
        /\ cyc.tgt_called
        /\ cyc.state_opens = 1

\* C15: the role query contacts the head nodes in list order; a head node
\* is contacted only after every earlier one has failed to give the node's
\* roles, none is contacted after one that gave them, and the result is the
\* role stated by that one.
C15_FirstAnswerWins ==
    LET q == cyc.queried
    IN  /\ Len(q) <= Len(bcm_headnodes)
        /\ \A k \in 1..Len(q) :
             /\ q[k].node = bcm_headnodes[k]
             /\ k < Len(q) => q[k].res \in {"failed", "unlisted"}
             /\ q[k].res \in {"has", "lacks"} =>
                  /\ pc = "manage"
                  /\ has_slurmclient_role = PyBool(q[k].res = "has")
        /\ pc = "query_req" => Len(q) = idx - 1
        /\ (pc = "manage" /\ cyc.interrupted_at = "") =>
             (Len(q) > 0 /\ q[Len(q)].res \in {"has", "lacks"})

C15_Witness ==
    /\ pc = "manage" /\ Len(cyc.queried) = 2
    /\ cyc.queried[1].res = "failed" /\ cyc.queried[2].res = "lacks"

\* C16: a head node whose well-formed device list lacks this node does not
\* end the query; when no head node lists the node the query returns None
\* and the cycle issues no command and touches no file.
C16_UnlistedIsIndeterminate ==
    LET q == cyc.queried
    IN  /\ \A k \in 1..Len(q) :
             q[k].res = "unlisted" =>
                 \/ Len(q) > k
                 \/ pc = "query_req" /\ idx = k + 1
                 \/ k = Len(bcm_headnodes) /\ pc = "sleep"
        /\ (pc = "sleep" /\ Len(q) > 0) =>
             /\ \A k \in 1..Len(q) : q[k].res \in {"failed", "unlisted"}
             /\ cyc.role = PyNone /\ cyc.outcome = "indeterminate"
             /\ ~cyc.svc_called /\ ~cyc.tgt_called
             /\ cyc.start_cmds = 0 /\ cyc.stop_cmds = 0
             /\ cyc.state_opens = 0

C16_Witness ==
    /\ pc = "sleep" /\ Len(cyc.queried) = Len(bcm_headnodes)
    /\ \E k \in 1..Len(cyc.queried) : cyc.queried[k].res = "unlisted"
    /\ cyc.active0 /\ active /\ cyc.prev0 = PyTrue

\* C17 (as claimed): a cycle in which a head node answered with a
\* well-formed device list that lacks this node, and no head node listed
\* it, treats the node as without the role: it goes on to manage_service
\* and manage_prometheus_targets with a role of False.
C17_NotFoundIsLacksRole ==
    (/\ pc = "sleep"
     /\ Len(cyc.queried) > 0
     /\ \E k \in 1..Len(cyc.queried) : cyc.queried[k].res = "unlisted"
     /\ \A k \in 1..Len(cyc.queried) : cyc.queried[k].res \notin {"has", "lacks"}) =>
        cyc.role = PyFalse

\* C18: a completed cycle with the role on a unit that was already active
\* issues no start and no stop command, leaves the unit active and the
\* retry state zero, saves the state, and leaves a target file that was
\* there with the same content (the descriptor); so a further such cycle
\* starts from, and ends in, the same service, target and retry state.
C18_Idempotent ==
    (CycleEnded /\ cyc.outcome = "determinate" /\ cyc.role = PyTrue /\ cyc.active0) =>
        /\ cyc.start_cmds = 0
        /\ cyc.stop_cmds = 0
        /\ active
        /\ Norm(retry_state) = ZeroRetry
        /\ cyc.saved
        /\ cyc.tgt_removes = 0
        /\ cyc.target0 => files[target_file] = FileOf(JsonDump(TargetTokens).text)
        /\ (cyc.prev0 = PyTrue /\ Norm(cyc.retry0) = ZeroRetry) =>
             /\ previous_role_status = cyc.prev0
             /\ Norm(retry_state) = Norm(cyc.retry0)

C18_Witness ==
    /\ pc = "sleep" /\ cyc.outcome = "determinate" /\ cyc.role = PyTrue
    /\ cyc.active0 /\ cyc.target0 /\ cyc.prev0 = PyTrue
    /\ cyc.tgt_writes = 1 /\ cyc.saved /\ ~cyc.first

\* The role the authority reports in the stable period.
RoleHeld == has_slurmclient_role = PyTrue
TargetInSync == files[target_file].exists <=> RoleHeld
ServiceInSync == active <=> RoleHeld
GivenUp ==
    /\ RoleHeld /\ ~active
    /\ Has(retry_state) /\ retry_state[service].failed_permanently

\* C19 (as claimed): under a stable environment the system reaches and then
\* stays in the state where the service is active iff the node has the role
\* and the target file exists iff the node has the role.
C19_ConvergesAsClaimed == <>[](ServiceInSync /\ TargetInSync)

\* C19: under a stable environment the system reaches and then stays in a
\* state where the target file exists iff the node has the role, and the
\* service is active iff the node has the role unless the node has the role
\* and the agent has given the unit up after max_retries failed starts, in
\* which case the unit stays inactive.
C19_Converges == <>[](TargetInSync /\ (ServiceInSync \/ GivenUp))

C19_Witness ==
    /\ pc = "sleep" /\ RoleHeld /\ active /\ files[target_file].exists
    /\ ~cyc.active0
    /\ Norm(cyc.retry0).attempts = max_retries - 1
    /\ cyc.start_cmds = 1 /\ now > LiveStart

\* C20 (as claimed), for the multi-exporter monitor: a cycle in which no
\* head node gave an answer does what the canonical monitor's Indeterminate
\* cycle does: it issues no stop command, removes no target file and leaves
\* the stored role as it was.
C20_UnreachableChangesNothing ==
    cyc.all_failed =>
        /\ cyc.stop_cmds = 0
        /\ cyc.tgt_removes = 0
        /\ previous_role_status = cyc.prev0

\* C21 (as claimed): constructing the monitor never ends the process
\* because of what the configuration file holds or because it is absent
\* (an exception leaves __init__ only when the operating system refuses to
\* write the log or the default file), and the configuration it continues
\* with is the file's object merged with the defaults, or the defaults when
\* the file is absent, unreadable or malformed.
C21_ConfigNeverAborts ==
    /\ pc = "c_aborted" => cyc.interrupted_at \in {"c_logging", "c_create"}
    /\ pc \in {"c_logging", "c_ready"} =>
         LET f == files[config_file]
         IN  \/ f.data.kind = "object" /\ config = Merged(f.data.d)
             \/ f.data.kind # "object" /\ config = default_config

\* C22: in a cycle that issued a start command, start_service returned True
\* iff the command exited 0 and the unit is active at the read-back; a
\* command that exited 0 with the unit inactive at the read-back is a
\* failure, recorded in the retry state as one more failed attempt.
C22_StartVerified ==
    (AfterService /\ cyc.start_cmds = 1) =>
        /\ cyc.start_ok <=> (cyc.start_rc /\ active)
        /\ cyc.start_ok => retry_state = DictOf(ZeroRetry)
        /\ ~cyc.start_ok =>
             /\ Has(retry_state)
             /\ retry_state[service].attempts = Attempts0 + 1
             /\ retry_state[service].last_attempt = PyDatetime(now)

C22_Witness ==
    /\ pc = "sleep" /\ cyc.start_cmds = 1 /\ cyc.start_rc /\ ~active
    /\ ~cyc.start_ok /\ retry_state[service].attempts = 2

\* C23: after a failed start at time now the unit's attempts is one more
\* than before and last_attempt is now; when the new attempts is below
\* max_retries, next_attempt is now + retry_interval and failed_permanently
\* is still false, otherwise failed_permanently is true; after a successful
\* start the retry state is the zero value.
C23_RetryAccounting ==
    (AfterService /\ cyc.start_cmds = 1) =>
        LET old == Norm(cyc.retry0)
            new == Norm(retry_state)
        IN  IF cyc.start_ok
            THEN new = ZeroRetry
            ELSE /\ new.attempts = old.attempts + 1
                 /\ new.last_attempt = PyDatetime(now)
                 /\ ~old.failed_permanently
                 /\ IF new.attempts < max_retries
                    THEN /\ new.next_attempt = PyDatetime(now + retry_interval)
                         /\ ~new.failed_permanently
                    ELSE new.failed_permanently

C23_Witness ==
    /\ pc = "sleep" /\ cyc.start_cmds = 1 /\ ~cyc.start_ok
    /\ Norm(cyc.retry0).attempts = 1
    /\ Norm(retry_state).next_attempt = PyDatetime(now + retry_interval)
    /\ Norm(cyc.retry0).next_attempt = PyDatetime(now)

\* C24: a cycle whose role is False issues no start command and at most one
\* stop command, and issues it iff the unit was running, whatever the retry
\* state, the previous role and the outcome of earlier stops; whether the
\* stop succeeds or fails the retry state is zero afterwards and the cycle
\* goes on to the target update and the state save.
C24_StopOncePerCycle ==
    (Running /\ cyc.outcome = "determinate" /\ cyc.role = PyFalse) =>
        /\ cyc.start_cmds = 0
        /\ cyc.stop_cmds <= 1
        /\ cyc.stop_cmds = 1 => cyc.active0
        /\ AfterService =>
             /\ cyc.stop_cmds = 1 <=> cyc.active0
             /\ Norm(retry_state) = ZeroRetry
             /\ (cyc.stop_cmds = 1 /\ ~cyc.stop_ok) => active
        /\ pc = "sleep" => (cyc.tgt_called /\ cyc.state_opens = 1)

C24_Witness ==
    /\ pc = "sleep" /\ cyc.outcome = "determinate" /\ cyc.role = PyFalse
    /\ cyc.prev0 = PyFalse /\ cyc.active0
    /\ cyc.stop_cmds = 1 /\ ~cyc.stop_ok /\ active
    /\ now >= 2 * check_interval

\* C25: a completed cycle with the role that finds the targets directory
\* missing or not writable writes nothing, leaves the target file as it was
\* and still saves the state; one that finds the directory available leaves
\* the descriptor in the target file, whether or not the role changed in
\* that cycle.
C25_PublishWhenAvailable ==
    (CycleEnded /\ cyc.outcome = "determinate" /\ cyc.role = PyTrue) =>
        /\ cyc.tgt_called /\ cyc.state_opens = 1
        /\ cyc.tgt_dir \in {"missing", "readonly"} =>
             /\ cyc.tgt_writes = 0
             /\ files[target_file].exists = cyc.target0
        /\ cyc.tgt_dir = "ok" =>
             /\ cyc.tgt_writes = 1
             /\ files[target_file] = FileOf(JsonDump(TargetTokens).text)

C25_Witness ==
    /\ pc = "sleep" /\ cyc.outcome = "determinate" /\ cyc.role = PyTrue
    /\ cyc.prev0 = PyTrue /\ ~cyc.first /\ ~cyc.target0 /\ cyc.tgt_dir = "ok"
    /\ files[target_file].exists /\ cyc.active0 /\ cyc.start_cmds = 0
    /\ state_file.exists /\ now >= check_interval

C27_FailedStartRetried ==
    ( /\ pc = "d_sleep"
      /\ cyc.role = PyTrue /\ cyc.prev0 = PyTrue
      /\ \E s \in DOMAIN cyc.retry0 :
           cyc.retry0[s] > 0 /\ cyc.retry0[s] < max_retries ) =>
        cyc.start_cmds > 0

\* C28: with several node agents sharing the targets directory, a step that
\* is not a step of the agent on node h leaves h's target file and h's
\* temporary path as they were, in existence and in content, under every
\* interleaving.
C28_OwnFileOnly ==
    [][\A h \in Nodes :
          pc'[h] = pc[h] =>
            \A p \in NodePaths(h) : files'[p] = files[p]]_vars

\* Two agents are in the middle of their writes at once, and one node's
\* descriptor is already published.
C28_Witness ==
    /\ DOMAIN pc = Nodes
    /\ \E h1, h2 \in Nodes :
         /\ h1 # h2
         /\ pc[h1] = "rename" /\ pc[h2] = "rename"
         /\ files[target_file_of(h1)].exists
         /\ files[temp_file_of(target_file_of(h1))].exists
         /\ files[temp_file_of(target_file_of(h2))].exists

\* C29: publication of the target does not depend on the health of the
\* service: at the end of every determinate cycle with the role held and the
\* targets directory available, the descriptor has been written in that
\* cycle and is present, whether the service runs, its start failed in this
\* cycle, it waits for its next attempt or it has been given up.
C29_TargetIndependentOfService ==
    ( /\ CycleEnded /\ cyc.outcome = "determinate"
      /\ cyc.role = PyTrue /\ cyc.tgt_dir = "ok" ) =>
        /\ cyc.tgt_writes = 1
        /\ IsDescriptor(files[target_file])

\* The start of this cycle failed and was the last one allowed: the service
\* is down and given up, and the descriptor is published.
C29_Witness ==
    /\ pc = "sleep" /\ cyc.outcome = "determinate" /\ cyc.role = PyTrue
    /\ cyc.tgt_dir = "ok" /\ cyc.start_cmds = 1 /\ ~cyc.start_ok /\ ~active
    /\ Has(retry_state) /\ retry_state[service].failed_permanently
    /\ IsDescriptor(files[target_file])

\* C30: with an empty list of head nodes (the default of bcm_headnodes) the
\* probe of every cycle fails before any request: the agent only probes and
\* sleeps, and for as long as it runs it issues no start and no stop
\* command, opens, writes and removes nothing in the targets directory and
\* never opens the state file, so neither file ever exists and the agent's
\* role and retry state stay as constructed.
C30_EmptyListNeverActs ==
    bcm_headnodes = <<>> =>
        /\ pc \in {"start", "probe", "sleep", "done"}
        /\ cyc.outcome \in {"running", "probe_failed", "error"}
        /\ (pc = "sleep" /\ cyc.outcome # "error") => cyc.outcome = "probe_failed"
        /\ ~cyc.svc_called /\ ~cyc.tgt_called
        /\ cyc.start_cmds = 0 /\ cyc.stop_cmds = 0
        /\ cyc.tmp_opens = 0 /\ cyc.tgt_writes = 0 /\ cyc.tgt_removes = 0
        /\ cyc.state_opens = 0
        /\ state_file = NoFile
        /\ \A p \in Paths : files[p] = NoFile
        /\ retry_state = EmptyDict
        /\ previous_role_status = PyNone /\ has_slurmclient_role = PyNone

\* A later cycle of an agent without head nodes has failed its probe while
\* the service is running: the service is left running.
C30_Witness ==
    /\ bcm_headnodes = <<>> /\ pc = "sleep" /\ cyc.outcome = "probe_failed"
    /\ now >= 2 * check_interval /\ active /\ targets_dir = "ok"

====
